---------------------------- MODULE Spec2Model ----------------------------
(***************************************************************************)
(* State-machine model of the document scraper.                            *)
(*                                                                         *)
(*   SpecAcquire : PDFDownloader.download_pdf of src/pdf_downloader.py,    *)
(*                 called any number of times on one download directory.   *)
(*   SpecResolve : CaptchaHandler.start_captcha_process / solve_captcha of *)
(*                 src/captcha_handler.py, one call and its recursion.     *)
(*   SpecCrawl   : one run of Crawler.crawl of src/v1/main.py, with the     *)
(*                 thread pool of PDFDownloader.download_pdfs.             *)
(*   SpecStore   : the resume state of src/v1/main.py over successive      *)
(*                 processes (runs whose page load fails).                 *)
(*   SpecCrawlLive  : SpecCrawl with every enabled step eventually taken.  *)
(*   SpecResolveLive: SpecResolve with every enabled step eventually taken.*)
(*   SpecStoreCrash : SpecStore where a process may be stopped in its save.*)
(*   SpecRetry   : calls of a function decorated with retry of             *)
(*                 src/selenium_handler.py.                                *)
(*   SpecAudit   : the pool's threads of src/v1/main.py appending their    *)
(*                 rows to the CSV files.                                  *)
(*   SpecRun     : one call of Crawler.run of src/crawler.py, with the     *)
(*                 resolver it calls.                                      *)
(***************************************************************************)
EXTENDS Integers, Sequences, FiniteSets, TLC

(***************************************************************************)
(* Bounds of the model.                                                    *)
(***************************************************************************)
\* largest configured value of misc_settings["max_retries"] that is explored
MaxRetriesBound == 3
\* largest configured max_retries of the CaptchaHandler that is explored
MaxTriesBound == 3
\* largest number of URLs handed to download_pdfs, and of identifiers in a
\* resume state
NumTargets == 3
\* threads of the pool (Config.MAX_WORKERS, which is 5 in src/v1/main.py:36)
MAX_WORKERS == 2
\* bytes per streamed chunk (stands for chunk_size=1024 of iter_content)
ChunkBytes == 4
\* largest max_tries, delay and backoff given to the retry decorator
MaxWrapperTries == 4
MaxDelay == 2
MaxBackoff == 3

(***************************************************************************)
(* Data: URLs, response bodies, files.                                     *)
(***************************************************************************)
\* A URL is the sequence of its "/"-separated segments.
Targets ==
    { <<"host1", "a.pdf">>, <<"host2", "a.pdf">>, <<"host1", "b.pdf">> }

\* The four bytes _is_pdf_valid compares the header with (b'%PDF').
PdfMagic == <<"%", "P", "D", "F">>

\* Bodies a server may send with status 200.
PdfBody  == <<"%", "P", "D", "F", "-", "1">>
HtmlBody == <<"<", "h", "t", "m", "l", ">">>
Bodies   == {PdfBody, HtmlBody}

\* A path with no file.
Absent == <<"absent">>

Min(a, b) == IF a <= b THEN a ELSE b

\* The first n bytes of a body (read(n) on a file, or what n written bytes leave).
Prefix(s, n) == SubSeq(s, 1, Min(n, Len(s)))

\* What is on disk after k chunks of body b were written to a file opened 'wb'.
ChunksWritten(b, k) == Prefix(b, k * ChunkBytes)

\* Number of chunks iter_content yields for body b.
NumChunks(b) == (Len(b) + ChunkBytes - 1) \div ChunkBytes

\* What one requests.get(..., stream=True) and the streaming of its body can do:
\*   transport : requests.get raises (timeout, connection error);
\*   status    : a response whose status_code is not 200;
\*   ok        : status 200; the body streams completely (cut = NumChunks) or
\*               iter_content raises after `cut` chunks were written.
Responses ==
    {[kind |-> "transport", body |-> <<>>, cut |-> 0],
     [kind |-> "status", body |-> <<>>, cut |-> 0]}
    \cup UNION {{[kind |-> "ok", body |-> b, cut |-> k] : k \in 0..NumChunks(b)} :
                    b \in Bodies}

\* The paths download_pdf can write to.
_create_pdf_filename(download_url) ==
    <<"pdf_dir", download_url[Len(download_url)]>>

Paths == {_create_pdf_filename(t) : t \in Targets}

\* The keys '<file_type>_csv' that config.directories holds.
CsvTypes == {"all", "good", "bad"}

EmptyCsv == [ft \in CsvTypes |-> <<>>]

VARIABLES
    max_retries,   \* PDFDownloader.max_retries
    fs,            \* the download directory: path -> bytes of the file, or Absent
    pc,            \* where download_pdf is: "idle", "attempt", "validate"
    pdf_link,      \* argument of the call in progress (or of the last call)
    attempt,       \* loop variable of download_pdf
    csv,           \* rows the call in progress (or the last call) appended, per stream
    fetches,       \* requests.get calls made by that call
    sleeps,        \* seconds of each time.sleep call made by that call, in order
    ret            \* what that call returned: "running", "None" or the path

acqVars == <<max_retries, fs, pc, pdf_link, attempt, csv, fetches, sleeps, ret>>

VARIABLES
    ch_max_retries,      \* CaptchaHandler.max_retries
    ai_service_url,      \* CaptchaHandler.ai_service_url: "" or "url"
    ai_service_api_key,  \* CaptchaHandler.ai_service_api_key: "" or "key"
    frames,              \* the active calls of solve_captcha: their tries_remaining,
                         \* the innermost call last
    cpc,                 \* where the innermost call is: "idle", "fetch", "ai",
                         \* "manual", "submit", "finally", "done"
    cret,                \* what the call being left returns: "none", "True",
                         \* "False", or "raise" for a propagating exception
    strategy,            \* how the solution of the current attempt was obtained:
                         \* "none", "remote-service", "human"
    captcha_file,        \* whether captcha_image_path exists
    remote_calls,        \* the tries_remaining of the calls that did requests.post
    human_calls,         \* the tries_remaining of each call that did input(), in order
    captcha_fetches,     \* number of fetch_captcha_file calls
    submission           \* what the last enter_captcha_solution met: "none",
                         \* "accepted", "Invalid CAPTCHA" (the page shows the
                         \* marker), "exception" (filling or submitting raised)

resVars == <<ch_max_retries, ai_service_url, ai_service_api_key, frames, cpc, cret,
             strategy, captcha_file, remote_calls, human_calls, captcha_fetches,
             submission>>

VARIABLES
    resume_file,    \* bytes of Config.RESUME_STATE_FILE, or Absent
    visited_urls,   \* Crawler.visited_urls
    crawl_pc,       \* where the main thread is: "new", "get_page", "captcha",
                    \* "extract", "pool", "save", "dump", "quit", "done", "crashed"
    pdf_urls,       \* the list handed to download_pdfs
    work_queue,     \* work items of the executor not yet taken by a thread
    tasks,          \* per submitted URL: the call download_pdf(url) of its work item
    yielded,        \* per future: how often as_completed has yielded it
    pdf_dir,        \* Config.PDF_DIR: file name -> bytes, for the files that exist
    persisted,      \* history: the set the last completed pickle.dump wrote ({} if none)
    dumped          \* history: save_resume_state completed in this behaviour

crawlVars == <<resume_file, visited_urls, crawl_pc, pdf_urls, work_queue, tasks,
               yielded, pdf_dir, persisted, dumped>>

\* misc_settings.get("retry_delay", 5): seconds slept between two attempts
retry_delay == 5

(***************************************************************************)
(* One function decorated with retry(max_tries, delay, backoff) of         *)
(* src/selenium_handler.py, and the calls of its wrapper.                  *)
(***************************************************************************)
VARIABLES
    max_tries,      \* arguments of the decorator
    delay,
    backoff,
    tries,          \* the wrapper's local count of failed calls
    wpc,            \* where the wrapper is: "idle", "call", "returned", "raised"
                    \* (line 26), "propagated" (an exception that is not caught)
    func_results,   \* what each call of the decorated function did in this
                    \* wrapper call, in order: "return", "listed", "other"
    waits           \* seconds of each time.sleep of this wrapper call, in order

retryVars == <<max_tries, delay, backoff, tries, wpc, func_results, waits>>

(***************************************************************************)
(* The threads of the pool of src/v1/main.py inside log_pdf_details, and   *)
(* the CSV files they append to.                                           *)
(***************************************************************************)
VARIABLES
    csv_files,      \* ALL_CSV, GOOD_CSV, BAD_CSV: the rows written, in file order
    log_threads,    \* per thread: where it is in log_pdf_details ("idle",
                    \* "open_all", "between", "open_second"), and the
                    \* arguments pdf_url and status of the call
    logged          \* the URLs whose download_pdf has called log_pdf_details

auditVars == <<csv_files, log_threads, logged>>

(***************************************************************************)
(* One call of Crawler.run of src/crawler.py.                              *)
(***************************************************************************)
VARIABLES
    run_pc,            \* where run is: "new", "captcha", "element", "link",
                       \* "download", "content", "returned"
    captcha_detected,  \* the loaded page contains "captcha" (line 34)
    pipeline_calls     \* the calls run has made on self.pdf_downloader, in order

runVars == <<run_pc, captcha_detected, pipeline_calls>>

vars == <<acqVars, resVars, crawlVars, retryVars, auditVars, runVars>>

(***************************************************************************)
(* src/logging_manager.py                                                  *)
(***************************************************************************)
\* LoggingManager.log_to_csv: an unknown file_type writes nothing.
log_to_csv(c, file_type, record) ==
    IF file_type \notin CsvTypes
    THEN c
    ELSE [c EXCEPT ![file_type] = Append(@, record)]

(***************************************************************************)
(* src/pdf_downloader.py                                                   *)
(***************************************************************************)
\* os.path.exists
Exists(f, path) == f[path] # Absent

\* PDFDownloader._is_pdf_valid: the first four bytes are %PDF; a file that cannot
\* be opened counts as invalid.
_is_pdf_valid(f, file_path) ==
    IF ~Exists(f, file_path)
    THEN FALSE
    ELSE Prefix(f[file_path], 4) = PdfMagic

\* An except branch that allows one iteration more than max_retries.
ExceptBranch_one_more(c, detail) ==
    LET c1 == log_to_csv(c, "all", <<pdf_link, "Failed", detail>>)
    IN  IF attempt <= max_retries
        THEN /\ csv' = c1
             /\ sleeps' = Append(sleeps, retry_delay)
             /\ attempt' = attempt + 1
             /\ pc' = "attempt"
             /\ ret' = ret
        ELSE /\ csv' = log_to_csv(c1, "bad",
                           <<pdf_link, "Failed", "Maximum retries exceeded">>)
             /\ sleeps' = sleeps
             /\ attempt' = attempt
             /\ pc' = "idle"
             /\ ret' = "None"

\* Lines 69-78: the except branch of one loop iteration, and what follows the
\* loop when this was the last iteration.  c holds the rows written so far.
ExceptBranch(c, detail) ==
    LET c1 == log_to_csv(c, "all", <<pdf_link, "Failed", detail>>)
    IN  IF attempt < max_retries
        THEN /\ csv' = c1
             /\ sleeps' = Append(sleeps, retry_delay)
             /\ attempt' = attempt + 1
             /\ pc' = "attempt"
             /\ ret' = ret
        ELSE /\ csv' = log_to_csv(c1, "bad",
                           <<pdf_link, "Failed", "Maximum retries exceeded">>)
             /\ sleeps' = sleeps
             /\ attempt' = attempt
             /\ pc' = "idle"
             /\ ret' = "None"

\* download_pdf without the os.path.exists test of line 38.
download_pdf_enter_noskip(link) ==
    /\ pc = "idle"
    /\ pdf_link' = link
    /\ fetches' = 0
    /\ sleeps' = <<>>
    /\ attempt' = 1
    /\ csv' = log_to_csv(EmptyCsv, "all", <<link, "Attempting", "Download started">>)
    /\ ret' = "running"
    /\ pc' = "attempt"
    /\ UNCHANGED <<max_retries, fs>>

\* Lines 34-44: entry of download_pdf, up to the first loop iteration.
download_pdf_enter(link) ==
    /\ pc = "idle"
    /\ pdf_link' = link
    /\ fetches' = 0
    /\ sleeps' = <<>>
    /\ attempt' = 1
    /\ LET pdf_filename == _create_pdf_filename(link)
       IN  IF Exists(fs, pdf_filename)
           THEN /\ csv' = log_to_csv(EmptyCsv, "all",
                              <<link, "Skipped", "PDF already exists">>)
                /\ ret' = pdf_filename
                /\ pc' = "idle"
           ELSE /\ csv' = log_to_csv(EmptyCsv, "all",
                              <<link, "Attempting", "Download started">>)
                /\ ret' = "running"
                /\ pc' = "attempt"
    /\ UNCHANGED <<max_retries, fs>>

\* Lines 46-54 and 67-74: one requests.get and the streaming of its body into
\* the destination file.
download_pdf_fetch(resp) ==
    /\ pc = "attempt"
    /\ fetches' = fetches + 1
    /\ LET pdf_filename == _create_pdf_filename(pdf_link)
       IN  CASE resp.kind = "transport" ->
                  /\ fs' = fs
                  /\ ExceptBranch(csv, "transport error")
             [] resp.kind = "status" ->
                  /\ fs' = fs
                  /\ ExceptBranch(csv, "Failed to download PDF. Status code")
             [] resp.kind = "ok" /\ resp.cut < NumChunks(resp.body) ->
                  \* open(..., 'wb') created the file; the stream broke
                  /\ fs' = [fs EXCEPT ![pdf_filename] =
                                         ChunksWritten(resp.body, resp.cut)]
                  /\ ExceptBranch(csv, "stream error")
             [] OTHER ->
                  /\ fs' = [fs EXCEPT ![pdf_filename] = resp.body]
                  /\ pc' = "validate"
                  /\ UNCHANGED <<csv, sleeps, attempt, ret>>
    /\ UNCHANGED <<max_retries, pdf_link>>

\* download_pdf whose success branch forgets the row of the good stream (line 60).
download_pdf_validate_nogood ==
    /\ pc = "validate"
    /\ LET pdf_filename == _create_pdf_filename(pdf_link)
       IN  IF _is_pdf_valid(fs, pdf_filename)
           THEN /\ csv' = log_to_csv(csv, "all",
                                <<pdf_link, "Success", "PDF downloaded and valid">>)
                /\ ret' = pdf_filename
                /\ pc' = "idle"
                /\ UNCHANGED <<sleeps, attempt>>
           ELSE ExceptBranch(
                    log_to_csv(
                        log_to_csv(csv, "all",
                            <<pdf_link, "Failed", "Invalid PDF format">>),
                        "bad", <<pdf_link, "Failed", "Invalid PDF format">>),
                    "Invalid PDF file format.")
    /\ UNCHANGED <<max_retries, fs, pdf_link, fetches>>

\* Lines 57-66 (and the except branch the raise of line 66 lands in).
download_pdf_validate ==
    /\ pc = "validate"
    /\ LET pdf_filename == _create_pdf_filename(pdf_link)
       IN  IF _is_pdf_valid(fs, pdf_filename)
           THEN /\ csv' = log_to_csv(
                            log_to_csv(csv, "all",
                                <<pdf_link, "Success", "PDF downloaded and valid">>),
                            "good",
                            <<pdf_link, "Success", "PDF downloaded and valid">>)
                /\ ret' = pdf_filename
                /\ pc' = "idle"
                /\ UNCHANGED <<sleeps, attempt>>
           ELSE ExceptBranch(
                    log_to_csv(
                        log_to_csv(csv, "all",
                            <<pdf_link, "Failed", "Invalid PDF format">>),
                        "bad", <<pdf_link, "Failed", "Invalid PDF format">>),
                    "Invalid PDF file format.")
    /\ UNCHANGED <<max_retries, fs, pdf_link, fetches>>

\* The downloader before its first call.
AcquireIdle ==
    /\ fs = [p \in Paths |-> Absent]
    /\ pc = "idle"
    /\ pdf_link = <<>>
    /\ attempt = 1
    /\ csv = EmptyCsv
    /\ fetches = 0
    /\ sleeps = <<>>
    /\ ret = "None"

\* The resolver before start_captcha_process is called.
ResolveIdle ==
    /\ frames = <<>>
    /\ cpc = "idle"
    /\ cret = "none"
    /\ strategy = "none"
    /\ captcha_file = FALSE
    /\ remote_calls = {}
    /\ human_calls = <<>>
    /\ captcha_fetches = 0
    /\ submission = "none"

\* The crawler of src/v1/main.py before it is constructed, with no resume file.
CrawlIdle ==
    /\ resume_file = Absent
    /\ visited_urls = {}
    /\ crawl_pc = "new"
    /\ pdf_urls = <<>>
    /\ work_queue = <<>>
    /\ tasks = <<>>
    /\ yielded = <<>>
    /\ pdf_dir = <<>>
    /\ persisted = {}
    /\ dumped = FALSE

\* The decorator with its default arguments (line 15), its wrapper not called.
RetryIdle ==
    /\ max_tries = 3
    /\ delay = 1
    /\ backoff = 2
    /\ tries = 0
    /\ wpc = "idle"
    /\ func_results = <<>>
    /\ waits = <<>>

\* The pool's threads outside log_pdf_details, and empty CSV files.
AuditIdle ==
    /\ csv_files = [ft \in CsvTypes |-> <<>>]
    /\ log_threads = [t \in 1..MAX_WORKERS |->
                         [lpc |-> "idle", pdf_url |-> <<>>, status |-> "none"]]
    /\ logged = {}

\* Crawler.run not called yet.
RunIdle ==
    /\ run_pc = "new"
    /\ captcha_detected = FALSE
    /\ pipeline_calls = <<>>

InitAcquire ==
    /\ max_retries \in 1..MaxRetriesBound
    /\ ch_max_retries = 3
    /\ ai_service_url = ""
    /\ ai_service_api_key = ""
    /\ ResolveIdle
    /\ AcquireIdle
    /\ RetryIdle
    /\ AuditIdle
    /\ RunIdle
    /\ CrawlIdle

NextAcquire ==
    \/ \E link \in Targets :
          download_pdf_enter(link) /\ UNCHANGED <<resVars, crawlVars, retryVars, auditVars, runVars>>
    \/ \E resp \in Responses :
          download_pdf_fetch(resp) /\ UNCHANGED <<resVars, crawlVars, retryVars, auditVars, runVars>>
    \/ download_pdf_validate /\ UNCHANGED <<resVars, crawlVars, retryVars, auditVars, runVars>>

SpecAcquire == InitAcquire /\ [][NextAcquire]_vars

(***************************************************************************)
(* src/captcha_handler.py                                                  *)
(***************************************************************************)
\* tries_remaining of the innermost active call of solve_captcha.
tries_remaining == frames[Len(frames)]

\* Line 45: the service counts as configured when both settings are non-empty.
AiConfigured == ~(ai_service_url = "" \/ ai_service_api_key = "")

\* The tries_remaining of the calls of solve_captcha that asked the operator.
HumanTries == {human_calls[k] : k \in DOMAIN human_calls}

\* Line 129: start_captcha_process calls solve_captcha(self.max_retries).
start_captcha_process ==
    /\ cpc = "idle"
    /\ frames' = <<ch_max_retries>>
    /\ cpc' = "fetch"
    /\ UNCHANGED <<ch_max_retries, ai_service_url, ai_service_api_key, submission, cret,
                   strategy, captcha_file, remote_calls, human_calls,
                   captcha_fetches>>

\* solve_captcha that tries the service on every attempt (no test of line 102).
solve_captcha_fetch_always_ai(ok) ==
    /\ cpc = "fetch"
    /\ captcha_fetches' = captcha_fetches + 1
    /\ strategy' = "none"
    /\ IF ok
       THEN /\ captcha_file' = TRUE
            /\ cpc' = "ai"
            /\ cret' = cret
       ELSE /\ captcha_file' = captcha_file
            /\ cpc' = "finally"
            /\ cret' = "raise"
    /\ UNCHANGED <<ch_max_retries, ai_service_url, ai_service_api_key, submission, frames,
                   remote_calls, human_calls>>

\* Lines 100-106: fetch_captcha_file, then the choice of the strategy.  When
\* the fetch raises, the exception leaves solve_captcha through its finally.
solve_captcha_fetch(ok) ==
    /\ cpc = "fetch"
    /\ captcha_fetches' = captcha_fetches + 1
    /\ strategy' = "none"
    /\ IF ok
       THEN /\ captcha_file' = TRUE
            /\ cpc' = IF tries_remaining = 1 THEN "manual" ELSE "ai"
            /\ cret' = cret
       ELSE /\ captcha_file' = captcha_file
            /\ cpc' = "finally"
            /\ cret' = "raise"
    /\ UNCHANGED <<ch_max_retries, ai_service_url, ai_service_api_key, submission, frames,
                   remote_calls, human_calls>>

\* A solve_captcha_with_ai that raises when the service is unconfigured, so
\* that the handler of line 109 counts it as a failed try.
solve_captcha_with_ai_unconfigured_raises(ok) ==
    /\ cpc = "ai"
    /\ IF ~AiConfigured
       THEN /\ IF tries_remaining - 1 > 0
               THEN /\ frames' = Append(frames, tries_remaining - 1)
                    /\ cpc' = "fetch"
               ELSE /\ frames' = frames
                    /\ cpc' = "manual_handler"
            /\ UNCHANGED <<remote_calls, strategy>>
       ELSE /\ remote_calls' = remote_calls \cup {tries_remaining}
            /\ IF ok
               THEN /\ strategy' = "remote-service"
                    /\ cpc' = "submit"
                    /\ frames' = frames
               ELSE /\ strategy' = strategy
                    /\ IF tries_remaining - 1 > 0
                       THEN /\ frames' = Append(frames, tries_remaining - 1)
                            /\ cpc' = "fetch"
                       ELSE /\ frames' = frames
                            /\ cpc' = "manual_handler"
    /\ UNCHANGED <<ch_max_retries, ai_service_url, ai_service_api_key, submission, cret,
                   captcha_file, human_calls, captcha_fetches>>

\* A handler of the service's failure that asks the operator in the same
\* attempt, whatever tries remain.
solve_captcha_with_ai_falls_through(ok) ==
    /\ cpc = "ai"
    /\ IF ~AiConfigured
       THEN /\ cpc' = "manual"
            /\ UNCHANGED <<frames, remote_calls, strategy>>
       ELSE /\ remote_calls' = remote_calls \cup {tries_remaining}
            /\ IF ok
               THEN /\ strategy' = "remote-service"
                    /\ cpc' = "submit"
                    /\ frames' = frames
               ELSE /\ strategy' = strategy
                    /\ frames' = frames
                    /\ cpc' = "manual_handler"
    /\ UNCHANGED <<ch_max_retries, ai_service_url, ai_service_api_key, submission, cret,
                   captcha_file, human_calls, captcha_fetches>>

\* Lines 43-67 and 107-113: solve_captcha_with_ai and the handler of its
\* exception.  Unconfigured, it asks the operator instead; configured, it posts
\* the image, and a failure makes solve_captcha call itself with one try less
\* when that leaves a try, and ask the operator otherwise.
solve_captcha_with_ai(ok) ==
    /\ cpc = "ai"
    /\ IF ~AiConfigured
       THEN /\ cpc' = "manual"
            /\ UNCHANGED <<frames, remote_calls, strategy>>
       ELSE /\ remote_calls' = remote_calls \cup {tries_remaining}
            /\ IF ok
               THEN /\ strategy' = "remote-service"
                    /\ cpc' = "submit"
                    /\ frames' = frames
               ELSE /\ strategy' = strategy
                    /\ IF tries_remaining - 1 > 0
                       THEN /\ frames' = Append(frames, tries_remaining - 1)
                            /\ cpc' = "fetch"
                       ELSE /\ frames' = frames
                            /\ cpc' = "manual_handler"
    /\ UNCHANGED <<ch_max_retries, ai_service_url, ai_service_api_key, submission, cret,
                   captcha_file, human_calls, captcha_fetches>>

\* Lines 37-41: solve_captcha_manually returns what the operator typed, or
\* input() raises.  Called from line 104 (cpc = "manual", one try remaining) or
\* from line 113 (cpc = "manual_handler") the exception leaves solve_captcha
\* through its finally.  Called from line 47, inside the try of line 107
\* (cpc = "manual", the service unconfigured), it is caught in line 109 like a
\* failure of the service: solve_captcha calls itself with one try less when
\* that leaves a try, and asks the operator again in line 113 otherwise.
solve_captcha_manually(ok) ==
    /\ cpc \in {"manual", "manual_handler"}
    /\ human_calls' = Append(human_calls, tries_remaining)
    /\ IF ok
       THEN /\ strategy' = "human"
            /\ cpc' = "submit"
            /\ UNCHANGED <<frames, cret>>
       ELSE /\ strategy' = strategy
            /\ IF cpc = "manual_handler" \/ tries_remaining = 1
               THEN /\ cpc' = "finally"
                    /\ cret' = "raise"
                    /\ frames' = frames
               ELSE IF tries_remaining - 1 > 0
                    THEN /\ frames' = Append(frames, tries_remaining - 1)
                         /\ cpc' = "fetch"
                         /\ cret' = cret
                    ELSE /\ frames' = frames
                         /\ cpc' = "manual_handler"
                         /\ cret' = cret
    /\ UNCHANGED <<ch_max_retries, ai_service_url, ai_service_api_key, submission,
                   captcha_file, remote_calls, captcha_fetches>>

\* What filling the field, submitting the form and reading the page can do.
SubmitOutcomes == {"accepted", "Invalid CAPTCHA", "exception"}

\* An enter_captcha_solution without its except clause.
enter_captcha_solution_reraise(outcome) ==
    CASE outcome = "accepted" -> "True"
      [] outcome = "Invalid CAPTCHA" -> "False"
      [] outcome = "exception" -> "raise"

\* Lines 69-84: enter_captcha_solution returns True, False when the page shows
\* "Invalid CAPTCHA", and False as well when filling, submitting or reading the
\* page raised (except Exception, lines 82-84).
enter_captcha_solution(outcome) ==
    CASE outcome = "accepted" -> "True"
      [] outcome = "Invalid CAPTCHA" -> "False"
      [] outcome = "exception" -> "False"

\* A wrong solution that starts the next attempt without counting the try.
solve_captcha_submit_nodecrement(outcome) ==
    /\ cpc = "submit"
    /\ submission' = outcome
    /\ LET success == enter_captcha_solution(outcome)
       IN  CASE success = "True" ->
                  /\ cret' = "True"
                  /\ cpc' = "finally"
                  /\ frames' = frames
             [] success = "raise" ->
                  /\ cret' = "raise"
                  /\ cpc' = "finally"
                  /\ frames' = frames
             [] success = "False" /\ tries_remaining > 1 ->
                  /\ frames' = Append(frames, tries_remaining)
                  /\ cpc' = "fetch"
                  /\ cret' = cret
             [] OTHER ->
                  /\ cret' = "False"
                  /\ cpc' = "finally"
                  /\ frames' = frames
    /\ UNCHANGED <<ch_max_retries, ai_service_url, ai_service_api_key, strategy,
                   captcha_file, remote_calls, human_calls, captcha_fetches>>

\* Lines 115-121: solve_captcha submits the solution; on True it returns True,
\* on False it calls itself with one try less while tries_remaining > 1 and
\* returns False otherwise; an exception of enter_captcha_solution would pass
\* through solve_captcha, which has no except around line 115.
solve_captcha_submit(outcome) ==
    /\ cpc = "submit"
    /\ submission' = outcome
    /\ LET success == enter_captcha_solution(outcome)
       IN  CASE success = "True" ->
                  /\ cret' = "True"
                  /\ cpc' = "finally"
                  /\ frames' = frames
             [] success = "raise" ->
                  /\ cret' = "raise"
                  /\ cpc' = "finally"
                  /\ frames' = frames
             [] success = "False" /\ tries_remaining > 1 ->
                  /\ frames' = Append(frames, tries_remaining - 1)
                  /\ cpc' = "fetch"
                  /\ cret' = cret
             [] OTHER ->
                  /\ cret' = "False"
                  /\ cpc' = "finally"
                  /\ frames' = frames
    /\ UNCHANGED <<ch_max_retries, ai_service_url, ai_service_api_key, strategy,
                   captcha_file, remote_calls, human_calls, captcha_fetches>>

\* A clean-up placed after the try instead of in a finally: it is skipped when
\* an exception leaves solve_captcha.
solve_captcha_finally_unless_raised ==
    /\ cpc = "finally"
    /\ captcha_file' = IF cret = "raise" THEN captcha_file ELSE FALSE
    /\ frames' = SubSeq(frames, 1, Len(frames) - 1)
    /\ cpc' = IF Len(frames) = 1 THEN "done" ELSE "finally"
    /\ UNCHANGED <<ch_max_retries, ai_service_url, ai_service_api_key, submission, cret,
                   strategy, remote_calls, human_calls, captcha_fetches>>

\* Lines 86-95 and 123-124: the finally of the call being left deletes the image
\* when it exists; the caller, which returns the callee's result (lines 111,
\* 120) or lets its exception pass, is left next.
solve_captcha_finally ==
    /\ cpc = "finally"
    /\ captcha_file' = FALSE
    /\ frames' = SubSeq(frames, 1, Len(frames) - 1)
    /\ cpc' = IF Len(frames) = 1 THEN "done" ELSE "finally"
    /\ UNCHANGED <<ch_max_retries, ai_service_url, ai_service_api_key, submission, cret,
                   strategy, remote_calls, human_calls, captcha_fetches>>

InitResolve ==
    /\ ch_max_retries \in 0..MaxTriesBound
    /\ ai_service_url \in {"", "url"}
    /\ ai_service_api_key \in {"", "key"}
    /\ ResolveIdle
    /\ max_retries = 3
    /\ AcquireIdle
    /\ RetryIdle
    /\ AuditIdle
    /\ RunIdle
    /\ CrawlIdle

NextResolve ==
    \/ start_captcha_process /\ UNCHANGED <<acqVars, crawlVars, retryVars, auditVars, runVars>>
    \/ \E ok \in BOOLEAN :
          solve_captcha_fetch(ok) /\ UNCHANGED <<acqVars, crawlVars, retryVars, auditVars, runVars>>
    \/ \E ok \in BOOLEAN :
          solve_captcha_with_ai(ok) /\ UNCHANGED <<acqVars, crawlVars, retryVars, auditVars, runVars>>
    \/ \E ok \in BOOLEAN :
          solve_captcha_manually(ok) /\ UNCHANGED <<acqVars, crawlVars, retryVars, auditVars, runVars>>
    \/ \E outcome \in SubmitOutcomes :
          solve_captcha_submit(outcome) /\ UNCHANGED <<acqVars, crawlVars, retryVars, auditVars, runVars>>
    \/ solve_captcha_finally /\ UNCHANGED <<acqVars, crawlVars, retryVars, auditVars, runVars>>

SpecResolve == InitResolve /\ [][NextResolve]_vars

\* SpecResolve where every call the resolver waits for returns or raises in the
\* end: an enabled step is eventually taken.
SpecResolveLive == SpecResolve /\ WF_vars(NextResolve)

\* The limit the code sets on the duration of the blocking call that the
\* innermost solve_captcha makes next: "none" when it passes no timeout.
\*   fetch  : wait_for_element is limited by element_timeout, but
\*            requests.get(captcha_src, stream=True) of line 25 has no timeout;
\*   ai     : requests.post(url, files=, headers=) of line 54 has no timeout
\*            (unconfigured, no request is made);
\*   manual : input() of line 40 has none;
\*   submit : the WebDriverWait of fill_input_field and submit_form, and
\*            time.sleep(retry_delay) of line 76, are limited.
StepTimeout ==
    CASE cpc = "fetch" -> "none"
      [] cpc = "ai" /\ AiConfigured -> "none"
      [] cpc \in {"manual", "manual_handler"} -> "none"
      [] cpc = "submit" -> "element_timeout"
      [] OTHER -> "no call"

(***************************************************************************)
(* src/v1/main.py                                                          *)
(***************************************************************************)
\* Config.MAX_RETRIES
MAX_RETRIES == 3

\* URLs the extraction may yield, in the order of the page; the first two
\* share their last path segment.
Catalogue ==
    << <<"host1", "a.pdf">>, <<"host2", "a.pdf">>, <<"host1", "b.pdf">>,
       <<"host2", "b.pdf">>, <<"host3", "a.pdf">>, <<"host3", "b.pdf">> >>

\* The sequences that enumerate the set S without repetition.
Perms(S) ==
    {f \in [1..Cardinality(S) -> S] : \A x \in S : \E i \in 1..Cardinality(S) : f[i] = x}

\* pickle.dump of a set: a header with the number of members, then the members
\* in the set's iteration order, which Python does not fix.
pickle_dump(S) == {<<"set", Cardinality(S)>> \o p : p \in Perms(S)}

\* Whether the bytes are a complete pickle (a truncated one makes pickle.load raise).
WellFormedPickle(b) ==
    /\ Len(b) >= 2
    /\ b[1] = "set"
    /\ b[2] = Len(b) - 2

\* pickle.load of a complete pickle: the set of the members read.
pickle_load(b) == {b[i] : i \in 3..Len(b)}

\* What extract_pdf_urls may hand to download_pdfs: a list of distinct URLs, or
\* None (the body of the method in src/v1/main.py is a placeholder).
ExtractResults ==
    {[none |-> FALSE, urls |-> SubSeq(Catalogue, 1, k)] : k \in 0..NumTargets}
    \cup {[none |-> TRUE, urls |-> <<>>]}

\* What requests.get + raise_for_status of v1 download_pdf can do: raise a
\* RequestException, or return the content of the response.
V1Responses ==
    {[kind |-> "error", body |-> <<>>]}
    \cup {[kind |-> "ok", body |-> b] : b \in Bodies}

\* A call download_pdf(url) that has not been submitted yet.
NewTask ==
    [st |-> "new", attempt |-> 0, body |-> <<>>, pdf_name |-> <<>>,
     result |-> "none", runs |-> 0,
     rows |-> [ft \in CsvTypes |-> <<>>]]

\* The work items a thread of the pool is running.
Running == {i \in 1..Len(tasks) : tasks[i].st \in {"get", "write", "validate", "remove"}}

\* Whether the work item of URL i has called requests.get at least once.
Fetched(i) == tasks[i].st \in {"write", "validate", "remove", "done"} \/ tasks[i].attempt > 0

\* A file name of PDF_DIR: the base name and the counter put before the extension.
FileName(base_name, counter) == <<base_name, counter>>

\* os.path.exists in PDF_DIR
V1Exists(dir, name) == name \in DOMAIN dir

\* open(name, 'wb').write(content)
V1Write(dir, name, content) ==
    [n \in (DOMAIN dir) \cup {name} |-> IF n = name THEN content ELSE dir[n]]

\* os.remove(name)
V1Remove(dir, name) == [n \in (DOMAIN dir) \ {name} |-> dir[n]]

\* The while loop of get_unique_filename, from the given counter on.
RECURSIVE FirstFree(_, _, _)
FirstFree(dir, base_name, counter) ==
    IF V1Exists(dir, FileName(base_name, counter))
    THEN FirstFree(dir, base_name, counter + 1)
    ELSE FileName(base_name, counter)

\* PDFDownloader.get_unique_filename
get_unique_filename(dir, url) == FirstFree(dir, url[Len(url)], 1)

\* PDFDownloader.validate_pdf: PdfReader accepts the file; any exception, a
\* missing file included, gives False.
validate_pdf(dir, pdf_path) ==
    IF ~V1Exists(dir, pdf_path) THEN FALSE ELSE dir[pdf_path] = PdfBody

\* PDFDownloader.log_pdf_details: a row for the all stream, and one for the good
\* stream when the status is "Success", else for the bad stream.
log_pdf_details(rows, status) ==
    LET r1 == [rows EXCEPT !["all"] = Append(@, status)]
    IN  IF status = "Success"
        THEN [r1 EXCEPT !["good"] = Append(@, status)]
        ELSE [r1 EXCEPT !["bad"] = Append(@, status)]

\* A constructor that ignores the resume file.
Crawler_init_empty ==
    /\ crawl_pc = "new"
    /\ visited_urls' = {}
    /\ crawl_pc' = "get_page"
    /\ UNCHANGED <<resume_file, pdf_urls, work_queue, tasks, yielded, pdf_dir,
                   persisted, dumped>>

\* Crawler.__init__ (lines 188-194) with load_resume_state (196-200): the set
\* unpickled from the resume file, the empty set when there is no file; a
\* file that does not unpickle makes the constructor raise.
Crawler_init ==
    /\ crawl_pc = "new"
    /\ IF resume_file = Absent
       THEN /\ visited_urls' = {}
            /\ crawl_pc' = "get_page"
       ELSE IF WellFormedPickle(resume_file)
            THEN /\ visited_urls' = pickle_load(resume_file)
                 /\ crawl_pc' = "get_page"
            ELSE /\ visited_urls' = visited_urls
                 /\ crawl_pc' = "crashed"
    /\ UNCHANGED <<resume_file, pdf_urls, work_queue, tasks, yielded, pdf_dir,
                   persisted, dumped>>

\* A page load whose exception leaves crawl without the finally.
crawl_get_page_nofinally(ok) ==
    /\ crawl_pc = "get_page"
    /\ crawl_pc' = IF ok THEN "captcha" ELSE "done"
    /\ UNCHANGED <<resume_file, visited_urls, pdf_urls, work_queue, tasks,
                   yielded, pdf_dir, persisted, dumped>>

\* Line 208: get_page; an exception goes to the handler of line 212 and on to
\* the finally.
crawl_get_page(ok) ==
    /\ crawl_pc = "get_page"
    /\ crawl_pc' = IF ok THEN "captcha" ELSE "save"
    /\ UNCHANGED <<resume_file, visited_urls, pdf_urls, work_queue, tasks,
                   yielded, pdf_dir, persisted, dumped>>

\* Line 209: handle_captcha.
crawl_handle_captcha(ok) ==
    /\ crawl_pc = "captcha"
    /\ crawl_pc' = IF ok THEN "extract" ELSE "save"
    /\ UNCHANGED <<resume_file, visited_urls, pdf_urls, work_queue, tasks,
                   yielded, pdf_dir, persisted, dumped>>

\* Lines 210-211 and 153: extract_pdf_urls, and the entry of download_pdfs.
\* Iterating None raises in line 153 before anything is submitted.
crawl_extract(res) ==
    /\ crawl_pc = "extract"
    /\ IF res.none
       THEN /\ crawl_pc' = "save"
            /\ UNCHANGED <<pdf_urls, tasks, yielded>>
       ELSE /\ crawl_pc' = "pool"
            /\ pdf_urls' = res.urls
            /\ tasks' = [i \in 1..Len(res.urls) |-> NewTask]
            /\ yielded' = [i \in 1..Len(res.urls) |-> 0]
    /\ UNCHANGED <<resume_file, visited_urls, work_queue, pdf_dir, persisted,
                   dumped>>

\* Number of URLs the comprehension of line 153 has submitted.
Submitted == Cardinality({i \in 1..Len(tasks) : tasks[i].st # "new"})

\* Line 153: executor.submit(self.download_pdf, url) for the next URL of the list.
download_pdfs_submit ==
    /\ crawl_pc = "pool"
    /\ Submitted < Len(pdf_urls)
    /\ LET i == Submitted + 1
       IN  /\ tasks' = [tasks EXCEPT ![i].st = "queued"]
           /\ work_queue' = Append(work_queue, i)
    /\ UNCHANGED <<resume_file, visited_urls, crawl_pc, pdf_urls, yielded,
                   pdf_dir, persisted, dumped>>

\* A thread of the pool that takes the head of the queue without removing it.
worker_start_nopop ==
    /\ work_queue # <<>>
    /\ Cardinality(Running) < MAX_WORKERS
    /\ tasks[Head(work_queue)].runs < 2
    /\ tasks' = [tasks EXCEPT ![Head(work_queue)].st = "get",
                              ![Head(work_queue)].attempt = 0,
                              ![Head(work_queue)].runs = @ + 1]
    /\ UNCHANGED <<resume_file, visited_urls, crawl_pc, pdf_urls, work_queue,
                   yielded, pdf_dir, persisted, dumped>>

\* An executor that starts a thread for every work item, however many run.
worker_start_unbounded ==
    /\ work_queue # <<>>
    /\ tasks' = [tasks EXCEPT ![Head(work_queue)].st = "get",
                              ![Head(work_queue)].attempt = 0,
                              ![Head(work_queue)].runs = @ + 1]
    /\ work_queue' = Tail(work_queue)
    /\ UNCHANGED <<resume_file, visited_urls, crawl_pc, pdf_urls, yielded,
                   pdf_dir, persisted, dumped>>

\* ThreadPoolExecutor (line 123): a thread, of at most MAX_WORKERS, takes the
\* oldest work item of the queue and starts download_pdf(url) (line 126).
worker_start ==
    /\ work_queue # <<>>
    /\ Cardinality(Running) < MAX_WORKERS
    /\ tasks' = [tasks EXCEPT ![Head(work_queue)].st = "get",
                              ![Head(work_queue)].attempt = 0,
                              ![Head(work_queue)].runs = @ + 1]
    /\ work_queue' = Tail(work_queue)
    /\ UNCHANGED <<resume_file, visited_urls, crawl_pc, pdf_urls, yielded,
                   pdf_dir, persisted, dumped>>

\* download_pdf(url) has returned the result, or raised; its locals are gone.
Returned(task, result) ==
    [task EXCEPT !.st = "done", !.result = result,
                 !.attempt = 0, !.body = <<>>, !.pdf_name = <<>>]

\* Lines 126-130 and 144-150: one pass of the loop of download_pdf up to the
\* choice of the file name.  When requests.get and raise_for_status succeed,
\* get_unique_filename picks pdf_name from the files that exist now.  A
\* RequestException is logged; the loop sleeps and goes on while an attempt is
\* left, and after the last one the rows "Failed" are written and False returned.
\* The loop counter is dropped once the request has succeeded: both branches
\* that follow return without reading it.
task_get(i, resp) ==
    /\ tasks[i].st = "get"
    /\ IF resp.kind = "ok"
       THEN tasks' = [tasks EXCEPT ![i].st = "write",
                                   ![i].attempt = 0,
                                   ![i].body = resp.body,
                                   ![i].pdf_name = get_unique_filename(pdf_dir, pdf_urls[i])]
       ELSE IF tasks[i].attempt < MAX_RETRIES - 1
            THEN tasks' = [tasks EXCEPT ![i].attempt = @ + 1]
            ELSE tasks' = [tasks EXCEPT
                              ![i] = Returned([@ EXCEPT !.rows = log_pdf_details(@, "Failed")],
                                              "False")]
    /\ UNCHANGED <<resume_file, visited_urls, crawl_pc, pdf_urls, work_queue,
                   yielded, pdf_dir, persisted, dumped>>

\* Lines 132-133: the content is written to pdf_name; an OSError is no
\* RequestException and leaves download_pdf.
task_write(i, ok) ==
    /\ tasks[i].st = "write"
    /\ IF ok
       THEN /\ pdf_dir' = V1Write(pdf_dir, tasks[i].pdf_name, tasks[i].body)
            /\ tasks' = [tasks EXCEPT ![i].st = "validate"]
       ELSE /\ pdf_dir' = pdf_dir
            /\ tasks' = [tasks EXCEPT ![i] = Returned(@, "exception")]
    /\ UNCHANGED <<resume_file, visited_urls, crawl_pc, pdf_urls, work_queue,
                   yielded, persisted, dumped>>

\* Lines 135-138: validate_pdf reads the file at pdf_name; a valid file is
\* logged and True returned.
task_validate(i) ==
    /\ tasks[i].st = "validate"
    /\ IF validate_pdf(pdf_dir, tasks[i].pdf_name)
       THEN tasks' = [tasks EXCEPT
                         ![i] = Returned([@ EXCEPT !.rows = log_pdf_details(@, "Success")],
                                         "True")]
       ELSE tasks' = [tasks EXCEPT ![i].st = "remove"]
    /\ UNCHANGED <<resume_file, visited_urls, crawl_pc, pdf_urls, work_queue,
                   yielded, pdf_dir, persisted, dumped>>

\* Lines 139-142: the invalid file is removed and False returned; os.remove of
\* a file that is gone raises, which is no RequestException.
task_remove(i) ==
    /\ tasks[i].st = "remove"
    /\ IF V1Exists(pdf_dir, tasks[i].pdf_name)
       THEN /\ pdf_dir' = V1Remove(pdf_dir, tasks[i].pdf_name)
            /\ tasks' = [tasks EXCEPT ![i] = Returned(@, "False")]
       ELSE /\ pdf_dir' = pdf_dir
            /\ tasks' = [tasks EXCEPT ![i] = Returned(@, "exception")]
    /\ UNCHANGED <<resume_file, visited_urls, crawl_pc, pdf_urls, work_queue,
                   yielded, persisted, dumped>>

\* A loop over as_completed that lets the exception of a future escape: the
\* loop, and with it download_pdfs, is left.
download_pdfs_collect_reraise(i) ==
    /\ crawl_pc = "pool"
    /\ Submitted = Len(pdf_urls)
    /\ tasks[i].st = "done"
    /\ yielded[i] = 0
    /\ yielded' = [yielded EXCEPT ![i] = @ + 1]
    /\ crawl_pc' = IF tasks[i].result = "exception" THEN "save" ELSE crawl_pc
    /\ UNCHANGED <<resume_file, visited_urls, pdf_urls, work_queue,
                   tasks, pdf_dir, persisted, dumped>>

\* Lines 154-159: as_completed yields a finished future that it has not yielded
\* yet; its result, or its exception, is consumed.
download_pdfs_collect(i) ==
    /\ crawl_pc = "pool"
    /\ Submitted = Len(pdf_urls)
    /\ tasks[i].st = "done"
    /\ yielded[i] = 0
    /\ yielded' = [yielded EXCEPT ![i] = @ + 1]
    /\ UNCHANGED <<resume_file, visited_urls, crawl_pc, pdf_urls, work_queue,
                   tasks, pdf_dir, persisted, dumped>>

\* Line 154: as_completed is exhausted, download_pdfs returns, and crawl goes
\* on to its finally.
download_pdfs_return ==
    /\ crawl_pc = "pool"
    /\ Submitted = Len(pdf_urls)
    /\ \A i \in 1..Len(pdf_urls) : yielded[i] > 0
    /\ crawl_pc' = "save"
    /\ UNCHANGED <<resume_file, visited_urls, pdf_urls, work_queue, tasks,
                   yielded, pdf_dir, persisted, dumped>>

\* Line 203: open(RESUME_STATE_FILE, 'wb') creates or truncates the file.
save_resume_state_open ==
    /\ crawl_pc = "save"
    /\ resume_file' = <<>>
    /\ crawl_pc' = "dump"
    /\ UNCHANGED <<visited_urls, pdf_urls, work_queue, tasks, yielded, pdf_dir,
                   persisted, dumped>>

\* Line 204: pickle.dump(self.visited_urls, f)
save_resume_state_dump ==
    /\ crawl_pc = "dump"
    /\ resume_file' \in pickle_dump(visited_urls)
    /\ persisted' = {visited_urls}
    /\ dumped' = TRUE
    /\ crawl_pc' = "quit"
    /\ UNCHANGED <<visited_urls, pdf_urls, work_queue, tasks, yielded, pdf_dir>>

\* Lines 203-204 cut short: the process is stopped (a signal, a power loss)
\* after open(..., 'wb') has truncated the file and before pickle.dump has
\* written all of it; the file keeps the bytes written so far.
save_resume_state_interrupted ==
    /\ crawl_pc = "dump"
    /\ \E b \in pickle_dump(visited_urls) :
          \E n \in 0..(Len(b) - 1) : resume_file' = SubSeq(b, 1, n)
    /\ crawl_pc' = "crashed"
    /\ UNCHANGED <<visited_urls, pdf_urls, work_queue, tasks, yielded, pdf_dir,
                   persisted, dumped>>

\* Line 216: selenium_handler.quit(); crawl returns.
crawl_quit ==
    /\ crawl_pc = "quit"
    /\ crawl_pc' = "done"
    /\ UNCHANGED <<resume_file, visited_urls, pdf_urls, work_queue, tasks,
                   yielded, pdf_dir, persisted, dumped>>

\* Lines 222-225: main() of a new process; nothing but the files survives.
main ==
    /\ crawl_pc \in {"done", "crashed"}
    /\ crawl_pc' = "new"
    /\ visited_urls' = {}
    /\ pdf_urls' = <<>>
    /\ work_queue' = <<>>
    /\ tasks' = <<>>
    /\ yielded' = <<>>
    /\ UNCHANGED <<resume_file, pdf_dir, persisted, dumped>>

\* The resume files a run may find: none, or the one an earlier run dumped.
InitCrawl ==
    /\ \/ resume_file = Absent /\ persisted = {}
       \/ /\ resume_file \in pickle_dump({Catalogue[1]})
          /\ persisted = {{Catalogue[1]}}
    /\ visited_urls = {}
    /\ crawl_pc = "new"
    /\ pdf_urls = <<>>
    /\ work_queue = <<>>
    /\ tasks = <<>>
    /\ yielded = <<>>
    /\ pdf_dir = <<>>
    /\ dumped = FALSE
    /\ max_retries = 3
    /\ AcquireIdle
    /\ RetryIdle
    /\ AuditIdle
    /\ RunIdle
    /\ ch_max_retries = 3
    /\ ai_service_url = ""
    /\ ai_service_api_key = ""
    /\ ResolveIdle

NextCrawl ==
    \/ Crawler_init /\ UNCHANGED <<acqVars, resVars, retryVars, auditVars, runVars>>
    \/ \E ok \in BOOLEAN : crawl_get_page(ok) /\ UNCHANGED <<acqVars, resVars, retryVars, auditVars, runVars>>
    \/ \E ok \in BOOLEAN : crawl_handle_captcha(ok) /\ UNCHANGED <<acqVars, resVars, retryVars, auditVars, runVars>>
    \/ \E res \in ExtractResults : crawl_extract(res) /\ UNCHANGED <<acqVars, resVars, retryVars, auditVars, runVars>>
    \/ download_pdfs_submit /\ UNCHANGED <<acqVars, resVars, retryVars, auditVars, runVars>>
    \/ worker_start /\ UNCHANGED <<acqVars, resVars, retryVars, auditVars, runVars>>
    \/ \E i \in 1..Len(tasks) : \E resp \in V1Responses :
          task_get(i, resp) /\ UNCHANGED <<acqVars, resVars, retryVars, auditVars, runVars>>
    \/ \E i \in 1..Len(tasks) : \E ok \in BOOLEAN :
          task_write(i, ok) /\ UNCHANGED <<acqVars, resVars, retryVars, auditVars, runVars>>
    \/ \E i \in 1..Len(tasks) : task_validate(i) /\ UNCHANGED <<acqVars, resVars, retryVars, auditVars, runVars>>
    \/ \E i \in 1..Len(tasks) : task_remove(i) /\ UNCHANGED <<acqVars, resVars, retryVars, auditVars, runVars>>
    \/ \E i \in 1..Len(tasks) :
          download_pdfs_collect(i) /\ UNCHANGED <<acqVars, resVars, retryVars, auditVars, runVars>>
    \/ download_pdfs_return /\ UNCHANGED <<acqVars, resVars, retryVars, auditVars, runVars>>
    \/ save_resume_state_open /\ UNCHANGED <<acqVars, resVars, retryVars, auditVars, runVars>>
    \/ save_resume_state_dump /\ UNCHANGED <<acqVars, resVars, retryVars, auditVars, runVars>>
    \/ crawl_quit /\ UNCHANGED <<acqVars, resVars, retryVars, auditVars, runVars>>

SpecCrawl == InitCrawl /\ [][NextCrawl]_vars

\* The run under the assumption that every call it makes returns or raises
\* (requests.get has a timeout, the operator answers, the threads of the pool
\* are scheduled): a step that can be taken is eventually taken.
SpecCrawlLive == SpecCrawl /\ WF_vars(NextCrawl)

\* The identifiers a resume state may hold.
StoreIds == {Catalogue[i] : i \in 1..NumTargets}

\* The resume files a process may find: none, or a set an earlier one dumped.
InitStore ==
    /\ \/ resume_file = Absent /\ persisted = {}
       \/ \E S \in SUBSET StoreIds :
             /\ resume_file \in pickle_dump(S)
             /\ persisted = {S}
    /\ visited_urls = {}
    /\ crawl_pc = "new"
    /\ pdf_urls = <<>>
    /\ work_queue = <<>>
    /\ tasks = <<>>
    /\ yielded = <<>>
    /\ pdf_dir = <<>>
    /\ dumped = FALSE
    /\ max_retries = 3
    /\ AcquireIdle
    /\ RetryIdle
    /\ AuditIdle
    /\ RunIdle
    /\ ch_max_retries = 3
    /\ ai_service_url = ""
    /\ ai_service_api_key = ""
    /\ ResolveIdle

\* Processes that are constructed, fail to load the page, save and quit.
NextStore ==
    \/ Crawler_init /\ UNCHANGED <<acqVars, resVars, retryVars, auditVars, runVars>>
    \/ crawl_get_page(FALSE) /\ UNCHANGED <<acqVars, resVars, retryVars, auditVars, runVars>>
    \/ save_resume_state_open /\ UNCHANGED <<acqVars, resVars, retryVars, auditVars, runVars>>
    \/ save_resume_state_dump /\ UNCHANGED <<acqVars, resVars, retryVars, auditVars, runVars>>
    \/ crawl_quit /\ UNCHANGED <<acqVars, resVars, retryVars, auditVars, runVars>>
    \/ main /\ UNCHANGED <<acqVars, resVars, retryVars, auditVars, runVars>>

SpecStore == InitStore /\ [][NextStore]_vars

\* The processes of SpecStore, any of which may be stopped while it saves.
NextStoreCrash ==
    \/ NextStore
    \/ save_resume_state_interrupted /\ UNCHANGED <<acqVars, resVars, retryVars, auditVars, runVars>>

SpecStoreCrash == InitStore /\ [][NextStoreCrash]_vars

(***************************************************************************)
(* The retry decorator of src/selenium_handler.py (lines 15-29).           *)
(***************************************************************************)
\* b ** e of Python for e >= 0.
RECURSIVE Pow(_, _)
Pow(b, e) == IF e = 0 THEN 1 ELSE b * Pow(b, e - 1)

\* Line 20: the wrapper is entered with tries = 0; with max_tries <= 0 the
\* while loop is not entered and the wrapper returns None.
wrapper_enter ==
    /\ wpc # "call"
    /\ tries' = 0
    /\ func_results' = <<>>
    /\ waits' = <<>>
    /\ wpc' = IF 0 < max_tries THEN "call" ELSE "returned"
    /\ UNCHANGED <<max_tries, delay, backoff>>

\* What a call of the decorated function does: it returns, raises an exception
\* of one of the types in `exceptions`, or raises another exception.
FuncOutcomes == {"return", "listed", "other"}

\* A wrapper that raises the power to the number of failures so far.
wrapper_call_power_of_tries(outcome) ==
    /\ wpc = "call"
    /\ func_results' = Append(func_results, outcome)
    /\ CASE outcome = "return" ->
              /\ wpc' = "returned"
              /\ UNCHANGED <<tries, waits>>
         [] outcome = "other" ->
              /\ wpc' = "propagated"
              /\ UNCHANGED <<tries, waits>>
         [] outcome = "listed" ->
              /\ tries' = tries + 1
              /\ IF tries' = max_tries
                 THEN /\ wpc' = "raised"
                      /\ waits' = waits
                 ELSE /\ waits' = Append(waits, delay * Pow(backoff, tries'))
                      /\ wpc' = "call"
    /\ UNCHANGED <<max_tries, delay, backoff>>

\* A wrapper whose except clause catches every exception.
wrapper_call_catches_all(outcome) ==
    /\ wpc = "call"
    /\ func_results' = Append(func_results, outcome)
    /\ CASE outcome = "return" ->
              /\ wpc' = "returned"
              /\ UNCHANGED <<tries, waits>>
         [] outcome \in {"listed", "other"} ->
              /\ tries' = tries + 1
              /\ IF tries' = max_tries
                 THEN /\ wpc' = "raised"
                      /\ waits' = waits
                 ELSE /\ waits' = Append(waits, delay * Pow(backoff, tries' - 1))
                      /\ wpc' = "call"
    /\ UNCHANGED <<max_tries, delay, backoff>>

\* Lines 21-27: one iteration of the while loop.  The call returns (line 23);
\* or it raises an exception that `except exceptions` does not catch, which
\* leaves the wrapper; or it raises one of the listed exceptions: tries is
\* incremented, the exception re-raised when tries reached max_tries, else the
\* wrapper sleeps delay * (backoff ** (tries - 1)) and the loop goes on.
wrapper_call(outcome) ==
    /\ wpc = "call"
    /\ func_results' = Append(func_results, outcome)
    /\ CASE outcome = "return" ->
              /\ wpc' = "returned"
              /\ UNCHANGED <<tries, waits>>
         [] outcome = "other" ->
              /\ wpc' = "propagated"
              /\ UNCHANGED <<tries, waits>>
         [] outcome = "listed" ->
              /\ tries' = tries + 1
              /\ IF tries' = max_tries
                 THEN /\ wpc' = "raised"
                      /\ waits' = waits
                 ELSE /\ waits' = Append(waits, delay * Pow(backoff, tries' - 1))
                      /\ wpc' = "call"
    /\ UNCHANGED <<max_tries, delay, backoff>>

InitRetry ==
    /\ max_tries \in 0..MaxWrapperTries
    /\ delay \in 1..MaxDelay
    /\ backoff \in 1..MaxBackoff
    /\ tries = 0
    /\ wpc = "idle"
    /\ func_results = <<>>
    /\ waits = <<>>
    /\ max_retries = 3
    /\ ch_max_retries = 3
    /\ ai_service_url = ""
    /\ ai_service_api_key = ""
    /\ AcquireIdle
    /\ ResolveIdle
    /\ CrawlIdle
    /\ AuditIdle
    /\ RunIdle

NextRetry ==
    \/ wrapper_enter /\ UNCHANGED <<acqVars, resVars, crawlVars, auditVars, runVars>>
    \/ \E outcome \in FuncOutcomes :
          wrapper_call(outcome) /\ UNCHANGED <<acqVars, resVars, crawlVars, auditVars, runVars>>

SpecRetry == InitRetry /\ [][NextRetry]_vars

(***************************************************************************)
(* log_pdf_details and log_to_csv of src/v1/main.py (lines 177-185), as    *)
(* the threads of the pool call them from download_pdf (lines 137, 149).   *)
(***************************************************************************)
\* The file the thread has open: the stream it is appending to, if any.
OpenFile(t) ==
    CASE log_threads[t].lpc = "open_all" -> "all"
      [] log_threads[t].lpc = "open_second" ->
            IF log_threads[t].status = "Success" THEN "good" ELSE "bad"
      [] OTHER -> "none"

\* Lines 137 / 149 and 178, 183: the download_pdf that a thread runs for one of
\* the submitted URLs calls log_pdf_details, which calls log_to_csv(ALL_CSV),
\* which opens the file for appending.
log_pdf_details_enter(t, url, status) ==
    /\ log_threads[t].lpc = "idle"
    /\ url \notin logged
    /\ logged' = logged \cup {url}
    /\ log_threads' = [log_threads EXCEPT
                          ![t] = [lpc |-> "open_all", pdf_url |-> url, status |-> status]]
    /\ UNCHANGED csv_files

\* Lines 184-185: writerow, and the end of the with block closes the file;
\* log_to_csv returns.  After the second file log_pdf_details returns too.
log_to_csv_writerow(t) ==
    /\ OpenFile(t) # "none"
    /\ csv_files' = [csv_files EXCEPT
                        ![OpenFile(t)] = Append(@, <<log_threads[t].pdf_url,
                                                     log_threads[t].status>>)]
    /\ log_threads' = [log_threads EXCEPT
                          ![t] = IF @.lpc = "open_all"
                                 THEN [@ EXCEPT !.lpc = "between"]
                                 ELSE [lpc |-> "idle", pdf_url |-> <<>>, status |-> "none"]]
    /\ UNCHANGED logged

\* Lines 179-180 and 183: log_to_csv of the good or the bad file opens it.
log_to_csv_open_second(t) ==
    /\ log_threads[t].lpc = "between"
    /\ log_threads' = [log_threads EXCEPT ![t].lpc = "open_second"]
    /\ UNCHANGED <<csv_files, logged>>

InitAudit ==
    /\ AuditIdle
    /\ RunIdle
    /\ max_retries = 3
    /\ ch_max_retries = 3
    /\ ai_service_url = ""
    /\ ai_service_api_key = ""
    /\ AcquireIdle
    /\ ResolveIdle
    /\ CrawlIdle
    /\ RetryIdle

NextAudit ==
    \/ \E t \in 1..MAX_WORKERS : \E k \in 1..NumTargets :
       \E status \in {"Success", "Failed"} :
          log_pdf_details_enter(t, Catalogue[k], status)
              /\ UNCHANGED <<acqVars, resVars, crawlVars, retryVars, runVars>>
    \/ \E t \in 1..MAX_WORKERS :
          log_to_csv_writerow(t) /\ UNCHANGED <<acqVars, resVars, crawlVars, retryVars, runVars>>
    \/ \E t \in 1..MAX_WORKERS :
          log_to_csv_open_second(t) /\ UNCHANGED <<acqVars, resVars, crawlVars, retryVars, runVars>>

SpecAudit == InitAudit /\ [][NextAudit]_vars

(***************************************************************************)
(* Crawler.run of src/crawler.py (lines 25-64), with the resolver of       *)
(* src/captcha_handler.py that it calls.                                   *)
(***************************************************************************)
\* What get_element_text and get_element_attribute(locator, 'tagName') of
\* lines 40-44 give: a tag of one of the three branches, or an exception.
ElementTags == {"a", "p", "table", "raise"}

\* What self.pdf_downloader.fetch_pdf_link() of line 50 gives.
LinkResults == {"link", "None", "raise"}

\* Lines 26-38, up to the test for the challenge: the driver is set up and the
\* page loaded; an exception is logged by the except of line 62 and run
\* returns.  With "captcha" in the page source start_captcha_process is called.
run_get(ok, has_captcha) ==
    /\ run_pc = "new"
    /\ IF ok
       THEN /\ captcha_detected' = has_captcha
            /\ run_pc' = IF has_captcha THEN "captcha" ELSE "element"
       ELSE /\ captcha_detected' = captcha_detected
            /\ run_pc' = "returned"
    /\ UNCHANGED pipeline_calls

\* A run that goes on to the element whatever start_captcha_process returned.
run_captcha_returned_unchecked ==
    /\ run_pc = "captcha"
    /\ cpc = "done"
    /\ run_pc' = IF cret = "raise" THEN "returned" ELSE "element"
    /\ UNCHANGED <<captcha_detected, pipeline_calls>>

\* Lines 36-38 and 62-63: start_captcha_process has returned or raised.  On
\* False run logs "CAPTCHA handling failed" and returns; an exception is
\* logged by the except of line 62 and run returns; on True run goes on.
run_captcha_returned ==
    /\ run_pc = "captcha"
    /\ cpc = "done"
    /\ run_pc' = IF cret = "True" THEN "element" ELSE "returned"
    /\ UNCHANGED <<captcha_detected, pipeline_calls>>

\* Lines 40-60: the element is read and its tag chooses the branch.
run_get_element(tag) ==
    /\ run_pc = "element"
    /\ run_pc' = CASE tag = "a" -> "link"
                   [] tag = "p" -> "content"
                   [] OTHER -> "returned"
    /\ UNCHANGED <<captcha_detected, pipeline_calls>>

\* Lines 50-51: fetch_pdf_link is called; an exception or no link ends run.
run_fetch_pdf_link(res) ==
    /\ run_pc = "link"
    /\ pipeline_calls' = Append(pipeline_calls, "fetch_pdf_link")
    /\ run_pc' = IF res = "link" THEN "download" ELSE "returned"
    /\ UNCHANGED captcha_detected

\* Line 52: download_pdf(pdf_link) is called, and run returns after it.
run_download_pdf ==
    /\ run_pc = "download"
    /\ pipeline_calls' = Append(pipeline_calls, "download_pdf")
    /\ run_pc' = "returned"
    /\ UNCHANGED captcha_detected

\* Lines 53-58: fetch_content and the row or the warning; run returns.
run_fetch_content ==
    /\ run_pc = "content"
    /\ run_pc' = "returned"
    /\ UNCHANGED <<captcha_detected, pipeline_calls>>

InitRun ==
    /\ RunIdle
    /\ ch_max_retries \in 0..MaxTriesBound
    /\ ai_service_url \in {"", "url"}
    /\ ai_service_api_key \in {"", "key"}
    /\ ResolveIdle
    /\ max_retries = 3
    /\ AcquireIdle
    /\ CrawlIdle
    /\ RetryIdle
    /\ AuditIdle

NextRun ==
    \/ \E ok \in BOOLEAN : \E has_captcha \in BOOLEAN :
          run_get(ok, has_captcha)
              /\ UNCHANGED <<acqVars, resVars, crawlVars, retryVars, auditVars>>
    \/ (run_pc = "captcha" /\ NextResolve)
    \/ run_captcha_returned
              /\ UNCHANGED <<acqVars, resVars, crawlVars, retryVars, auditVars>>
    \/ \E tag \in ElementTags :
          run_get_element(tag)
              /\ UNCHANGED <<acqVars, resVars, crawlVars, retryVars, auditVars>>
    \/ \E res \in LinkResults :
          run_fetch_pdf_link(res)
              /\ UNCHANGED <<acqVars, resVars, crawlVars, retryVars, auditVars>>
    \/ run_download_pdf
              /\ UNCHANGED <<acqVars, resVars, crawlVars, retryVars, auditVars>>
    \/ run_fetch_content
              /\ UNCHANGED <<acqVars, resVars, crawlVars, retryVars, auditVars>>

SpecRun == InitRun /\ [][NextRun]_vars

(***************************************************************************)
(* Properties of download_pdf (src/pdf_downloader.py).                     *)
(***************************************************************************)
\* The destination of the call in progress (or of the last call).
Dest == _create_pdf_filename(pdf_link)

\* The statuses of the rows of a stream, in order.
Statuses(rows) == [i \in 1..Len(rows) |-> rows[i][2]]

\* The rows of a stream that carry the given status.
RowsWith(rows, status) == {i \in 1..Len(rows) : rows[i][2] = status}

\* A validation of this call failed: rows "Invalid PDF format" were written.
InvalidSeen ==
    \E i \in 1..Len(csv["bad"]) : csv["bad"][i][3] = "Invalid PDF format"

\* The call has returned, and it returned the way the skip of line 41 does.
ReturnedSkipped ==
    /\ pc = "idle"
    /\ ret # "None"
    /\ ret = Dest
    /\ Statuses(csv["all"]) = <<"Skipped">>

\* The call has returned from the success branch (line 61).
ReturnedSuccess ==
    /\ pc = "idle"
    /\ ret # "None"
    /\ ret = Dest
    /\ Len(csv["all"]) > 0
    /\ csv["all"][Len(csv["all"])][2] = "Success"

\* C1: a call of download_pdf whose destination path already exists returns
\* the skip (one "Skipped" row, the path) without any requests.get and without
\* touching the directory; a call that returned success left a file at its
\* destination, and no step of download_pdf removes a file: so a second call
\* for a target after a successful first one fetches nothing.
C1_ExistingDestinationSkipsFetch ==
    [][ /\ (pc = "idle" /\ Exists(fs, _create_pdf_filename(pdf_link')))
             => /\ pc' = "idle"
                /\ fetches' = 0
                /\ ret' = _create_pdf_filename(pdf_link')
                /\ Statuses(csv'["all"]) = <<"Skipped">>
                /\ csv'["good"] = <<>>
                /\ csv'["bad"] = <<>>
                /\ fs' = fs
        /\ (pc' = "idle" /\ ret' # "None")
             => Exists(fs', _create_pdf_filename(pdf_link'))
        /\ \A p \in Paths : Exists(fs, p) => Exists(fs', p)
      ]_vars

\* C1 witness: a call for a target whose PDF an earlier call downloaded has
\* returned the skip, having fetched nothing.
C1_Witness ==
    /\ ReturnedSkipped
    /\ fetches = 0
    /\ fs[Dest] = PdfBody

\* The call went: max_retries - 1 failed fetches (transport error, status or
\* broken stream), then a fetch whose body passed the validation.
FailedThenValid ==
    /\ ReturnedSuccess
    /\ fetches = max_retries
    /\ ~InvalidSeen

\* C2 as stated: such a call writes exactly one row to the all stream and
\* exactly one to the good stream.
C2_Original ==
    FailedThenValid =>
        /\ ret = Dest
        /\ Len(csv["all"]) = 1
        /\ Len(csv["good"]) = 1

\* C2 as amended: such a call returns the path and writes to the all stream one
\* "Attempting" row, one "Failed" row per failed fetch and then exactly one
\* "Success" row (max_retries + 1 rows), exactly one row to the good stream, a
\* "Success" row, and none to the bad stream.
C2_SuccessAfterFailures ==
    FailedThenValid =>
        /\ ret = Dest
        /\ Len(csv["all"]) = max_retries + 1
        /\ Statuses(csv["all"]) =
              [i \in 1..(max_retries + 1) |->
                  IF i = 1 THEN "Attempting"
                  ELSE IF i = max_retries + 1 THEN "Success" ELSE "Failed"]
        /\ Cardinality(RowsWith(csv["all"], "Success")) = 1
        /\ Statuses(csv["good"]) = <<"Success">>
        /\ csv["bad"] = <<>>
        /\ Len(sleeps) = max_retries - 1

\* C2 witness: at least one failed fetch came before the valid one.
C2_Witness ==
    /\ FailedThenValid
    /\ max_retries >= 2
    /\ fs[Dest] = PdfBody

\* C3 as stated: once a fetched body failed the signature check, the call
\* returns without success and no file is left at the path the body was
\* written to.
C3_InvalidBodyRemoved ==
    (pc = "idle" /\ InvalidSeen) =>
        /\ ret = "None"
        /\ ~Exists(fs, Dest)

\* C4 as stated: whenever a call has returned success or the skip, the file at
\* its destination starts with the signature, and after a call has returned
\* no destination path holds a file that does not.
C4_ReturnedGoodImpliesValidFile ==
    pc = "idle" =>
        /\ (ReturnedSuccess \/ ReturnedSkipped) => _is_pdf_valid(fs, Dest)
        /\ \A p \in Paths : Exists(fs, p) => _is_pdf_valid(fs, p)

(***************************************************************************)
(* Properties of solve_captcha (src/captcha_handler.py).                   *)
(***************************************************************************)
\* C5: an attempt of solve_captcha with tries_remaining = 1 never posts to the
\* solving service (it is never inside solve_captcha_with_ai), and the solution
\* it submits was typed by the operator, whatever the service's configuration.
C5_LastTryIsHuman ==
    /\ 1 \notin remote_calls
    /\ (frames # <<>> /\ tries_remaining = 1) =>
          /\ cpc # "ai"
          /\ cpc = "submit" => (strategy = "human" /\ 1 \in HumanTries)

\* C5 witness: with the service configured, the attempt with one try left,
\* reached by decrement, submits a solution typed by the operator.
C5_Witness ==
    /\ AiConfigured
    /\ Len(frames) >= 2
    /\ tries_remaining = 1
    /\ cpc = "submit"
    /\ strategy = "human"

(***************************************************************************)
(* Properties of the pool and of the resume state (src/v1/main.py).        *)
(***************************************************************************)
\* download_pdfs has returned to crawl after running the pool over a list.
PoolReturned == crawl_pc \in {"save", "dump", "quit", "done"} /\ Len(tasks) > 0

\* The results a call of download_pdf can end with.
Outcomes == {"True", "False", "exception"}

\* C6: a pool of MAX_WORKERS threads run over K distinct URLs starts
\* download_pdf at most once for each URL and yields each future at most once,
\* under every interleaving; when download_pdfs has returned there are exactly
\* K results, one for every URL: each call was started once, has ended with a
\* result or an exception, and was yielded once, and nothing is left queued.
C6_OneOutcomePerTarget ==
    /\ Len(tasks) = Len(pdf_urls)
    /\ \A i, j \in 1..Len(pdf_urls) : pdf_urls[i] = pdf_urls[j] => i = j
    /\ \A i \in 1..Len(tasks) :
          /\ tasks[i].runs <= 1
          /\ yielded[i] <= 1
          /\ yielded[i] = 1 => tasks[i].st = "done"
          /\ tasks[i].st = "done" <=> tasks[i].result \in Outcomes
          /\ Cardinality({k \in 1..Len(work_queue) : work_queue[k] = i})
                = (IF tasks[i].st = "queued" THEN 1 ELSE 0)
    /\ PoolReturned =>
          /\ work_queue = <<>>
          /\ \A i \in 1..Len(tasks) :
                /\ tasks[i].st = "done"
                /\ tasks[i].runs = 1
                /\ yielded[i] = 1
          /\ Cardinality({i \in 1..Len(tasks) : tasks[i].result \in Outcomes})
                = Len(pdf_urls)

\* More URLs than threads were run, and the three kinds of result all occurred.
C6_Witness ==
    /\ PoolReturned
    /\ Len(pdf_urls) = NumTargets
    /\ NumTargets > MAX_WORKERS
    /\ \A r \in Outcomes : \E i \in 1..Len(tasks) : tasks[i].result = r

\* C7: a URL that is in the set loaded from the resume file is never handed
\* to the pool, and no requests.get is made for it.
C7_VisitedNeverDispatched ==
    \A i \in 1..Len(tasks) :
        pdf_urls[i] \in visited_urls => (tasks[i].st = "new" /\ ~Fetched(i))

\* C8: when the run has saved its resume state, the saved set holds the URL of
\* every download_pdf call that ended during the run.
C8_CompletedArePersisted ==
    (crawl_pc \in {"quit", "done"}) =>
        \A i \in 1..Len(tasks) :
            tasks[i].st = "done" => pdf_urls[i] \in pickle_load(resume_file)

\* C9: a new Crawler that finds the resume file an earlier process dumped
\* loads a set equal to the dumped one, and one that finds no file starts with
\* the empty set; neither constructor raises.
C9_LoadReturnsPersisted ==
    [][ (crawl_pc = "new" /\ crawl_pc' # "new") =>
            /\ crawl_pc' = "get_page"
            /\ IF resume_file = Absent
               THEN visited_urls' = {} /\ persisted = {}
               ELSE visited_urls' \in persisted ]_vars

\* A process has dumped {a, b, c} and the next one has loaded it.
C9_Witness ==
    /\ dumped
    /\ crawl_pc = "get_page"
    /\ visited_urls = StoreIds
    /\ Cardinality(visited_urls) >= 3
    /\ persisted = {visited_urls}

\* C11: every run of crawl that has started reaches save_resume_state: the
\* state is dumped and the run ends, whether the page load, the captcha
\* handling, the extraction or download_pdfs raised or all of them returned;
\* the dump is the last thing written, after it the run only quits, and the
\* file is not written a second time.
C11_RunEndsWithPersist ==
    /\ (crawl_pc = "get_page") ~> (dumped /\ crawl_pc = "done")
    /\ [](dumped => crawl_pc \in {"quit", "done"})
    /\ [][dumped => resume_file' = resume_file]_vars

\* A run that was aborted before the pool, and one where calls of the pool
\* raised, have both ended after the dump.
C11_Witness ==
    /\ dumped
    /\ crawl_pc = "done"
    /\ WellFormedPickle(resume_file)
    /\ \/ tasks = <<>>
       \/ \E i \in 1..Len(tasks) : tasks[i].result = "exception"

\* C12: when a call of download_pdf has returned, it has written exactly one
\* row to the all stream and exactly one row to the good and bad streams
\* together: to the good stream when it returned a path (downloaded or
\* skipped), to the bad stream when it returned None.
C12_OneRowPerStream ==
    (pc = "idle" /\ pdf_link # <<>>) =>
        /\ Len(csv["all"]) = 1
        /\ Len(csv["good"]) + Len(csv["bad"]) = 1
        /\ (ret # "None") <=> (Len(csv["good"]) = 1)

\* The calls of download_pdf that ended in failure: False (retries exhausted
\* or invalid file) or an exception.
FailedTasks == {j \in 1..Len(tasks) : tasks[j].result \in {"False", "exception"}}

\* C13: in a pool run where a call has ended in failure, the run is not
\* aborted and no other call is disturbed: download_pdfs stays in its loop
\* until every other URL has been submitted, run to its end and collected; the
\* next URL can still be submitted; the thread of the failed call is free, so
\* a queued call can start whenever fewer than MAX_WORKERS calls are running;
\* and every running call can take its next step.
C13_FailureDoesNotStopSiblings ==
    (FailedTasks # {}) =>
        /\ (\E i \in 1..Len(tasks) : tasks[i].st # "done" \/ yielded[i] = 0)
              => crawl_pc = "pool"
        /\ (\E i \in 1..Len(tasks) : tasks[i].st = "new")
              => ENABLED download_pdfs_submit
        /\ FailedTasks \cap Running = {}
        /\ (work_queue # <<>> /\ Cardinality(Running) < MAX_WORKERS)
              => ENABLED worker_start
        /\ \A i \in Running :
              \/ ENABLED (\E resp \in V1Responses : task_get(i, resp))
              \/ ENABLED (\E ok \in BOOLEAN : task_write(i, ok))
              \/ ENABLED task_validate(i)
              \/ ENABLED task_remove(i)
        /\ \A i \in 1..Len(tasks) :
              (crawl_pc = "pool" /\ Submitted = Len(pdf_urls)
                 /\ tasks[i].st = "done" /\ yielded[i] = 0)
              => ENABLED download_pdfs_collect(i)

\* Two calls have failed, one by an exception and one by returning False, and
\* the third URL, which had to wait for a thread, is being downloaded.
C13_Witness ==
    /\ crawl_pc = "pool"
    /\ Len(tasks) = 3
    /\ tasks[1].result = "exception"
    /\ tasks[2].result = "False"
    /\ tasks[3].st = "validate"
    /\ yielded[1] = 1

C16_CorruptFileLoadsEmpty ==
    [][ (crawl_pc = "new" /\ crawl_pc' # "new"
           /\ resume_file # Absent /\ ~WellFormedPickle(resume_file)) =>
            (visited_urls' = {} /\ crawl_pc' = "get_page") ]_vars

\* C17: when a process has been stopped, the resume file is as it was before
\* the save began (the complete set dumped last, or no file when none was ever
\* dumped) or holds the complete set being saved; it is never cut short.
C17_InterruptedSaveKeepsCompleteSet ==
    (crawl_pc = "crashed") =>
        \/ resume_file = Absent /\ persisted = {}
        \/ /\ resume_file # Absent
           /\ WellFormedPickle(resume_file)
           /\ pickle_load(resume_file) \in persisted \cup {visited_urls}

\* C18: at every moment, during a call of download_pdf and after it, a file
\* at a destination path is a complete body that has passed the signature
\* check: none that was cut short, and none that is still to be validated.
C18_DestinationHoldsOnlyValidatedBodies ==
    \A p \in Paths :
        Exists(fs, p) =>
            /\ fs[p] \in Bodies
            /\ _is_pdf_valid(fs, p)
            /\ ~(pc = "validate" /\ p = Dest)

\* C19: once a fetched body has failed the signature check, the same call
\* of download_pdf makes no further requests.get.
C19_NoFetchAfterInvalidBody ==
    [][ (pc # "idle" /\ InvalidSeen) => fetches' = fetches ]_vars

\* C20: started with max_retries = N >= 1, every failure of the service and
\* every wrong solution uses up exactly one try: the nested calls of
\* solve_captcha carry N, N-1, ... down to at least 1, and each is entered at
\* fetch_captcha_file; at most N images are fetched; False is returned only
\* when all N tries are used up; and after True no further attempt is made.
C20_EachFailureConsumesOneTry ==
    /\ [](ch_max_retries >= 1 =>
            /\ \A k \in 1..Len(frames) : frames[k] = ch_max_retries - k + 1
            /\ \A k \in 1..Len(frames) : frames[k] >= 1
            /\ captcha_fetches <= ch_max_retries
            /\ cret = "False" => captcha_fetches = ch_max_retries
            /\ cret = "True" => cpc \in {"finally", "done"})
    /\ [][ (ch_max_retries >= 1 /\ Len(frames') > Len(frames)) =>
             /\ Len(frames') = Len(frames) + 1
             /\ cpc' = "fetch"
             /\ cpc \in {"idle", "ai", "manual", "submit"} ]_vars
    /\ [][ cret = "True" => captcha_fetches' = captcha_fetches ]_vars

\* Three tries: the service failed, the next solution was wrong, and the last
\* try ended with False.
C20_Witness ==
    /\ ch_max_retries = 3
    /\ cpc = "done"
    /\ cret = "False"
    /\ captcha_fetches = 3
    /\ remote_calls = {3, 2}
    /\ strategy = "human"

\* C21: a call of start_captcha_process with at least one try ends by
\* returning True (solved) or False (tries used up); no failure inside it,
\* that of fetching the image included, leaves it as an exception.
C21_ResolveNeverRaises ==
    (cpc = "done" /\ ch_max_retries >= 1) =>
        /\ cret \in {"True", "False"}
        /\ cret = "False" => captcha_fetches = ch_max_retries

\* C22: with ai_service_url or ai_service_api_key empty, an attempt with more
\* than one try remaining posts nothing to the service and goes to the
\* operator in the same call of solve_captcha, without using up a try; the
\* solution the operator gives is submitted in that same call.
C22_UnconfiguredGoesToHuman ==
    /\ [](~AiConfigured => remote_calls = {})
    /\ [][ (cpc = "ai" /\ ~AiConfigured /\ tries_remaining > 1) =>
             (cpc' = "manual" /\ frames' = frames) ]_vars
    /\ [][ (cpc = "manual" /\ ~AiConfigured /\ tries_remaining > 1
              /\ strategy' = "human" /\ strategy # "human") =>
             (cpc' = "submit" /\ frames' = frames
                /\ tries_remaining \in HumanTries') ]_vars

\* The service is unconfigured, three tries remain, and the operator's
\* solution is about to be submitted in the first call of solve_captcha.
C22_Witness ==
    /\ ~AiConfigured
    /\ cpc = "submit"
    /\ strategy = "human"
    /\ frames = <<3>>
    /\ captcha_fetches = 1
    /\ human_calls = <<3>>

\* The rows of the all stream that record a request that failed with a
\* transport error or a status other than 200.
NetFailures ==
    {i \in 1..Len(csv["all"]) :
        csv["all"][i][3] \in {"transport error", "Failed to download PDF. Status code"}}

\* C23: a call of download_pdf makes at most max_retries requests; when every
\* request it made failed with a transport error or a status other than 200,
\* it has made exactly max_retries of them and returns None, the failed
\* outcome, to its caller.
C23_AtMostMaxRetriesFetches ==
    /\ fetches <= max_retries
    /\ (pc = "idle" /\ fetches >= 1 /\ Cardinality(NetFailures) = fetches) =>
          /\ fetches = max_retries
          /\ ret = "None"
          /\ csv["good"] = <<>>
          /\ csv["bad"] = << <<pdf_link, "Failed", "Maximum retries exceeded">> >>

\* Three requests were allowed, all three failed, and the call has returned.
C23_Witness ==
    /\ max_retries = 3
    /\ pc = "idle"
    /\ fetches = 3
    /\ Cardinality(NetFailures) = 3
    /\ ret = "None"

\* C24: after the failed attempt k < max_retries, download_pdf waits the retry
\* policy's delay for k, base * backoff^(k-1) with the policy's multiplier (2,
\* the default of retry) and the configured retry_delay as base; it never waits
\* after the last attempt, so a call whose fetches all fail waits exactly
\* max_retries - 1 times.
DefaultBackoff == 2
C24_WaitsFollowRetryPolicy ==
    /\ \A k \in 1..Len(sleeps) :
          /\ k < max_retries
          /\ sleeps[k] = retry_delay * Pow(DefaultBackoff, k - 1)
    /\ (pc = "idle" /\ fetches >= 1 /\ Cardinality(NetFailures) = fetches) =>
          Len(sleeps) = max_retries - 1

(***************************************************************************)
(* Properties of the retry decorator (src/selenium_handler.py).            *)
(***************************************************************************)
\* C25: the wrapper's first wait is delay and each later wait is the one before
\* it times backoff, that is delay * backoff^(k-1) after the k-th failure; a
\* wait follows only failures below max_tries; with delay 1 and backoff 2 the
\* waits are 1, 2, 4.
C25_WaitsGrowGeometrically ==
    /\ Len(waits) <= tries
    /\ (wpc = "call" => Len(waits) = tries)
    /\ \A k \in 1..Len(waits) :
          /\ k < max_tries
          /\ waits[k] = IF k = 1 THEN delay ELSE waits[k - 1] * backoff
    /\ (delay = 1 /\ backoff = 2 /\ Len(waits) >= 3) =>
          SubSeq(waits, 1, 3) = <<1, 2, 4>>

\* C25 witness: three failures under the default delay and backoff, with a
\* fourth call still allowed.
C25_Witness ==
    /\ delay = 1 /\ backoff = 2 /\ max_tries = 4
    /\ tries = 3 /\ wpc = "call"
    /\ waits = <<1, 2, 4>>

(***************************************************************************)
(* Properties of the pool's file names and of its bound (src/v1/main.py).  *)
(***************************************************************************)
\* The work items that have written their content to pdf_name and still hold it.
HasWritten == {i \in 1..Len(tasks) : tasks[i].st \in {"validate", "remove"}}

\* C26: under every interleaving, two work items in progress never have both
\* written to the same path of PDF_DIR.
C26_NoTwoWritersOfOnePath ==
    \A i \in HasWritten : \A j \in HasWritten :
        i # j => tasks[i].pdf_name # tasks[j].pdf_name

\* C29: at every moment of a pool run at most MAX_WORKERS calls of download_pdf
\* are in progress, however many URLs were submitted; the URLs beyond that wait
\* in the queue.
C29_AtMostMaxWorkersRunning ==
    /\ Cardinality(Running) <= MAX_WORKERS
    /\ \A k \in 1..Len(work_queue) : tasks[work_queue[k]].st = "queued"

\* C29 witness: more URLs than threads were submitted, every thread is running
\* a call, and a URL waits.
C29_Witness ==
    /\ Len(pdf_urls) > MAX_WORKERS
    /\ Submitted = Len(pdf_urls)
    /\ Cardinality(Running) = MAX_WORKERS
    /\ work_queue # <<>>

(***************************************************************************)
(* Properties of the destination path (src/pdf_downloader.py).             *)
(***************************************************************************)
\* C27: distinct identifiers get distinct destination paths, also when their
\* last path segment is the same; so a call that is skipped right after the
\* successful download of a different identifier is skipped for another file
\* than the one that download wrote.
C27_DistinctTargetsDistinctPaths ==
    /\ [](\A a \in Targets : \A b \in Targets :
            a # b => _create_pdf_filename(a) # _create_pdf_filename(b))
    /\ [][ (ReturnedSuccess /\ pdf_link' # pdf_link /\ ReturnedSkipped')
              => ret' # ret ]_vars

(***************************************************************************)
(* Properties of the CSV files under the pool (src/v1/main.py).            *)
(***************************************************************************)
\* C28: two threads of the pool are never at the same time inside an append to
\* the same CSV file (all, good or bad).
C28_AppendsAreSerialized ==
    \A t1 \in 1..MAX_WORKERS : \A t2 \in 1..MAX_WORKERS :
        (t1 # t2 /\ OpenFile(t1) # "none") => OpenFile(t1) # OpenFile(t2)

\* C30: submitting a solution never raises into solve_captcha: when the page
\* shows the marker "Invalid CAPTCHA", and equally when filling the field or
\* submitting the form failed, the submission counts as a wrong solution, which
\* uses up one try: the next attempt starts with one try less, or False is
\* returned when this was the last try; an accepted solution returns True.
C30_SubmissionNeverRaises ==
    [][ cpc = "submit" =>
          /\ cret' # "raise"
          /\ submission' \in SubmitOutcomes
          /\ submission' = "accepted" => (cret' = "True" /\ cpc' = "finally")
          /\ submission' \in {"Invalid CAPTCHA", "exception"} =>
                IF tries_remaining > 1
                THEN frames' = Append(frames, tries_remaining - 1) /\ cpc' = "fetch"
                ELSE cret' = "False" /\ cpc' = "finally" /\ frames' = frames ]_vars

\* C30 witness: submitting raised on the first of three tries, and the second
\* attempt has begun with two tries.
C30_Witness ==
    /\ submission = "exception"
    /\ frames = <<3, 2>>
    /\ cpc = "fetch"
    /\ captcha_fetches = 1

\* The calls of solve_captcha that asked the operator more than once.
AskedTwice ==
    {k \in DOMAIN human_calls :
        \E j \in DOMAIN human_calls : j # k /\ human_calls[j] = human_calls[k]}

\* C31: when every fetch, service call, submission and operator input returns
\* in the end, start_captcha_process with max_retries >= 1 returns or raises;
\* the only call the resolver waits for without a limit is the operator's
\* input; and the operator is asked at most once in each attempt.
C31_OnlyHumanWaitUnbounded ==
    /\ (cpc = "fetch" /\ ch_max_retries >= 1) ~> (cpc = "done")
    /\ [](ch_max_retries >= 1 =>
            (StepTimeout = "none" => cpc \in {"manual", "manual_handler"}))
    /\ [](ch_max_retries >= 1 => AskedTwice = {})

\* C32: with the service configured and max_retries >= 1, the operator is asked
\* at most once in the whole call of start_captcha_process, and only by the
\* call of solve_captcha with tries_remaining = 1; a failure of the service
\* with two or more tries remaining starts the next attempt and does not ask
\* the operator in the same one.
C32_HumanOnlyOnLastTry ==
    /\ []((AiConfigured /\ ch_max_retries >= 1) =>
            /\ Len(human_calls) <= 1
            /\ \A k \in DOMAIN human_calls : human_calls[k] = 1
            /\ cpc \in {"manual", "manual_handler"} => tries_remaining = 1)
    /\ [][ (AiConfigured /\ ch_max_retries >= 1 /\ cpc = "ai"
              /\ tries_remaining >= 2 /\ cpc' # "submit") =>
             /\ cpc' = "fetch"
             /\ frames' = Append(frames, tries_remaining - 1)
             /\ human_calls' = human_calls ]_vars

\* C32 witness: the service failed with three and with two tries remaining, and
\* the operator, asked once on the last try, has given a solution.
C32_Witness ==
    /\ AiConfigured
    /\ ch_max_retries = 3
    /\ remote_calls = {3, 2}
    /\ human_calls = <<1>>
    /\ frames = <<3, 2, 1>>
    /\ cpc = "submit"

(***************************************************************************)
(* Properties of Crawler.run (src/crawler.py).                             *)
(***************************************************************************)
\* C33: in a run whose page shows a challenge, fetch_pdf_link and download_pdf
\* are called only after start_captcha_process has returned True; when it has
\* returned False or raised, run returns without calling either.
C33_DownloadOnlyAfterResolved ==
    /\ [](captcha_detected =>
            /\ (pipeline_calls # <<>> \/ run_pc \in {"element", "link", "download", "content"})
                  => (cpc = "done" /\ cret = "True")
            /\ (cpc = "done" /\ cret \in {"False", "raise"})
                  => (pipeline_calls = <<>> /\ run_pc \in {"captcha", "returned"}))
    /\ [][ (run_pc = "captcha" /\ cpc = "done" /\ cret \in {"False", "raise"})
              => run_pc' = "returned" ]_vars

\* C33 witness: a challenge was detected and resolved, and the link was fetched
\* and downloaded after it.
C33_Witness ==
    /\ captcha_detected
    /\ cpc = "done" /\ cret = "True"
    /\ pipeline_calls = <<"fetch_pdf_link", "download_pdf">>
    /\ run_pc = "returned"

\* The last call of the decorated function in this wrapper call.
LastResult == func_results[Len(func_results)]

\* C34: with max_tries = M >= 1 the wrapper calls the function at most M times,
\* and every call but the last raised a listed exception; a call that returns
\* ends the wrapper with its result; after M listed failures the wrapper
\* re-raises, having slept M - 1 times and not after the M-th; an exception that
\* is not listed leaves the wrapper at once, with no sleep and no further call.
C34_WrapperCallsAtMostMaxTries ==
    max_tries >= 1 =>
        /\ Len(func_results) <= max_tries
        /\ \A k \in 1..(Len(func_results) - 1) : func_results[k] = "listed"
        /\ wpc = "call" =>
              (Len(func_results) = tries /\ Len(waits) = tries /\ tries < max_tries)
        /\ wpc = "returned" =>
              (LastResult = "return" /\ Len(waits) = Len(func_results) - 1)
        /\ wpc = "raised" =>
              /\ LastResult = "listed"
              /\ Len(func_results) = max_tries
              /\ Len(waits) = max_tries - 1
        /\ wpc = "propagated" =>
              (LastResult = "other" /\ Len(waits) = Len(func_results) - 1)
        /\ (func_results # <<>> /\ LastResult = "other") => wpc = "propagated"
        /\ (func_results # <<>> /\ LastResult = "return") => wpc = "returned"

\* C34 witness: three listed failures under max_tries = 3, re-raised after two
\* sleeps.
C34_Witness ==
    /\ max_tries = 3
    /\ wpc = "raised"
    /\ func_results = <<"listed", "listed", "listed">>
    /\ Len(waits) = 2
=============================================================================
